---- MODULE Spec2Model ----
(***************************************************************************)
(* Model of examples/LightningDetector/LightningDetector.ino: the sketch   *)
(* that drives the AS3935 lightning sensor.  Two execution contexts share  *)
(* the volatile flag AS3935IrqTriggered: the regular path (setup() once,   *)
(* then loop() forever) and the rising-edge handler AS3935Irq().  Every    *)
(* statement of the regular path is one action; a call into the AS3935     *)
(* library is two actions (the call is entered, the call returns) so that  *)
(* the handler can run while a register transaction is in flight.          *)
(***************************************************************************)
EXTENDS Integers, Sequences, FiniteSets, TLC

VARIABLES
    pc,                  \* program point of the regular path (setup, then loop)
    AS3935IrqTriggered,  \* volatile int AS3935IrqTriggered
    attached,            \* attachInterrupt(IRQpin, AS3935Irq, RISING) has been called
    dev,                 \* the chip: level of its IRQ pin, tank-circuit trim register
    spi,                 \* library calls in flight, innermost last: [ctx, op]
    irqSource,           \* loop(): int irqSource
    strokeDistance,      \* loop(): int strokeDistance
    events,              \* messages printed by the poll in progress, in order
    serial,              \* messages printed by setup(), in order
    sweep,               \* calibrate(): the frame of the sweep in progress
    calResult,           \* what calibrate() returned: "pending", "true", "false"
    poll,                \* history of the poll in progress: clears, register reads
    unserved,            \* history: an edge was delivered and no interruptSource() read started since
    edgeSinceClear,      \* history: the handler ran since the flag was last zeroed
    done,                \* history: the steps of setup() completed so far, in order
    hist,                \* history: handler runs less interruptSource() reads (saturating), reads of the pass
    cfg                  \* history: the configuration fields as set so far

vars == <<pc, AS3935IrqTriggered, attached, dev, spi, irqSource, strokeDistance,
          events, serial, sweep, calResult, poll, unserved, edgeSinceClear, done,
          hist, cfg>>

----------------------------------------------------------------------------
\* Bounds of the model.

\* Largest value the interrupt-source read returns (four cause bits).
MaxIrqSource == 15
\* Largest value the distance read returns; 63 is the largest the sketch names.
MaxDistance == 64
\* Number of trim candidates of the calibration sweep.
NumTrim == 3
\* Largest frequency deviation a measurement of the sweep reports.
MaxDev == 3
\* The surplus of handler runs over register reads the history counts before
\* it saturates.
MaxEdges == 2
\* Number of field writes in a row the configuration interface is driven with.
MaxSets == 2

IrqSources == 0..MaxIrqSource
Distances == 0..MaxDistance
Trims == 0..(NumTrim - 1)
Devs == 0..MaxDev

----------------------------------------------------------------------------
\* Constants of the program.

\* Deviation bound of the calibration verdict.
Tolerance == 1

\* irqSource & 0b0001, irqSource & 0b0100, irqSource & 0b1000
NoiseMask == 1
DisturberMask == 4
LightningMask == 8

\* strokeDistance == 1, strokeDistance == 63
OverheadKm == 1
OutOfRangeKm == 63

----------------------------------------------------------------------------
\* Pure helpers.

RECURSIVE BitAnd(_, _)
\* C's a & b on non-negative ints.
BitAnd(a, b) ==
    IF a = 0 \/ b = 0 THEN 0
    ELSE (a % 2) * (b % 2) + 2 * BitAnd(a \div 2, b \div 2)

\* Serial.println of one classification message.
Msg(kind, km) == [kind |-> kind, km |-> km]

\* The messages of a given kind among a sequence of messages.
OfKind(s, kinds) == SelectSeq(s, LAMBDA m : m.kind \in kinds)

LightningKinds == {"StormOverhead", "OutOfRange", "LightningKm"}

NoPoll == [clears |-> 0, src |-> "none", km |-> "none"]
NoSweep == [measured |-> <<>>, bestDev |-> 0, bestTrim |-> 0]

\* A library call is entered / returns on the regular path.
Enter(op) == spi' = Append(spi, [ctx |-> "main", op |-> op])
Leave == spi' = SubSeq(spi, 1, Len(spi) - 1)

----------------------------------------------------------------------------
\* Configuration registers: fields packed into shared register bytes.

\* Values of the mode field (analog front-end gain) and of the disturber mask.
Indoor == 18
Outdoor == 14
DisturbersEnabled == 0
DisturbersDisabled == 1

Regs == 0..3

\* Field descriptors: register, bit offset, bit width.
FieldOf ==
    [powerDown      |-> [reg |-> 0, off |-> 0, width |-> 1],
     mode           |-> [reg |-> 0, off |-> 1, width |-> 5],
     watchdog       |-> [reg |-> 1, off |-> 0, width |-> 4],
     noiseFloor     |-> [reg |-> 1, off |-> 4, width |-> 3],
     spikeRejection |-> [reg |-> 2, off |-> 0, width |-> 4],
     minLightning   |-> [reg |-> 2, off |-> 4, width |-> 2],
     interrupt      |-> [reg |-> 3, off |-> 0, width |-> 4],
     disturbers     |-> [reg |-> 3, off |-> 5, width |-> 1]]

Fields == DOMAIN FieldOf

\* The values a field may be set to.
ValidValues ==
    [mode           |-> {Indoor, Outdoor},
     disturbers     |-> {DisturbersEnabled, DisturbersDisabled},
     noiseFloor     |-> 0..7,
     spikeRejection |-> 0..11,
     watchdog       |-> 0..10]

Settable == DOMAIN ValidValues

\* The power-on-reset values of the registers.
DefaultRegs == [r \in Regs |-> <<36, 34, 194, 0>>[r + 1]]

\* Register contents the chip may hold before reset(): the defaults, or a
\* pattern retained from earlier use.
PriorRegs == {DefaultRegs} \cup {[r \in Regs |-> b] : b \in {0, 85, 170, 255}}

\* The bits of a field within its byte.
FieldMask(f) == ((2 ^ FieldOf[f].width) - 1) * (2 ^ FieldOf[f].off)

\* Read the register, mask and shift the field out.
GetField(regs, f) == (regs[FieldOf[f].reg] \div (2 ^ FieldOf[f].off)) % (2 ^ FieldOf[f].width)

\* A mutant of the field write: the byte written is the shifted value alone.
RmwField_NoRead(regs, f, v) ==
    [regs EXCEPT ![FieldOf[f].reg] = BitAnd(v * (2 ^ FieldOf[f].off), FieldMask(f))]

\* Read the register, clear the field's bits, set them to v, write the register.
RmwField(regs, f, v) ==
    [regs EXCEPT ![FieldOf[f].reg] =
        BitAnd(@, 255 - FieldMask(f)) + BitAnd(v * (2 ^ FieldOf[f].off), FieldMask(f))]

\* The fields as they read from given register contents, none set yet.
NoCfg(regs) == [n |-> 0, log |-> <<>>, expected |-> [f \in Fields |-> GetField(regs, f)]]

\* A setter of the configuration interface has run on the chip.
Configure(f, v) ==
    /\ dev' = [dev EXCEPT !.regs = RmwField(@, f, v)]
    /\ cfg' = [n |-> cfg.n + 1, log |-> Append(cfg.log, <<f, v>>),
               expected |-> [cfg.expected EXCEPT ![f] = v]]

NoHist == [credit |-> 0, reads |-> 0]

\* Count one more, up to the saturation bound.
Bump(n) == IF n < MaxEdges THEN n + 1 ELSE n

----------------------------------------------------------------------------
Init ==
    /\ pc = "s_spi"
    /\ AS3935IrqTriggered = 0
    /\ attached = FALSE
    /\ dev \in [pin : {0}, tunCap : Trims, regs : PriorRegs]
    /\ spi = <<>>
    /\ irqSource = 0
    /\ strokeDistance = 0
    /\ events = <<>>
    /\ serial = <<>>
    /\ sweep = NoSweep
    /\ calResult = "pending"
    /\ poll = NoPoll
    /\ unserved = FALSE
    /\ edgeSinceClear = FALSE
    /\ done = <<>>
    /\ hist = NoHist
    /\ cfg = NoCfg(dev.regs)

----------------------------------------------------------------------------
\* setup()

\* A mutant of the first step of setup(): attachInterrupt is called at the top.
SetupSpiInit_AttachesFirst ==
    /\ pc = "s_spi"
    /\ pc' = "s_reset"
    /\ attached' = TRUE
    /\ done' = Append(done, "spi")
    /\ UNCHANGED <<hist, cfg, AS3935IrqTriggered, dev, spi, irqSource, strokeDistance,
                   events, serial, sweep, calResult, poll, unserved, edgeSinceClear>>

\* Serial.begin, SPI.begin, setDataMode, setClockDivider, setBitOrder.
SetupSpiInit ==
    /\ pc = "s_spi"
    /\ pc' = "s_reset"
    /\ done' = Append(done, "spi")
    /\ UNCHANGED <<hist, cfg, AS3935IrqTriggered, attached, dev, spi, irqSource, strokeDistance,
                   events, serial, sweep, calResult, poll, unserved, edgeSinceClear>>

\* AS3935.reset() is entered.
ResetBegin ==
    /\ pc = "s_reset"
    /\ pc' = "s_reset_ret"
    /\ Enter("reset")
    /\ UNCHANGED <<hist, cfg, AS3935IrqTriggered, attached, dev, irqSource, strokeDistance,
                   events, serial, sweep, calResult, poll, unserved, edgeSinceClear, done>>

\* AS3935.reset() returns: the registers hold their defaults.
ResetEnd ==
    /\ pc = "s_reset_ret"
    /\ pc' = "s_cal"
    /\ Leave
    /\ dev' = [dev EXCEPT !.tunCap = 0, !.regs = DefaultRegs]
    /\ cfg' = NoCfg(DefaultRegs)
    /\ done' = Append(done, "reset")
    /\ UNCHANGED <<hist, AS3935IrqTriggered, attached, irqSource, strokeDistance,
                   events, serial, sweep, calResult, poll, unserved, edgeSinceClear>>

\* AS3935.calibrate() is entered.
CalibrateBegin ==
    /\ pc = "s_cal"
    /\ pc' = "s_cal_sweep"
    /\ Enter("calibrate")
    /\ sweep' = NoSweep
    /\ UNCHANGED <<hist, cfg, AS3935IrqTriggered, attached, dev, irqSource, strokeDistance,
                   events, serial, calResult, poll, unserved, edgeSinceClear, done>>

\* A mutant of the sweep step: the best candidate is never updated after the first.
CalibrateMeasure_KeepsFirst ==
    /\ pc = "s_cal_sweep"
    /\ Len(sweep.measured) < NumTrim
    /\ \E d \in Devs :
         LET i == Len(sweep.measured) IN
         /\ dev' = [dev EXCEPT !.tunCap = i]
         /\ sweep' = [measured |-> Append(sweep.measured, d),
                      bestDev  |-> IF i = 0 THEN d ELSE sweep.bestDev,
                      bestTrim |-> IF i = 0 THEN i ELSE sweep.bestTrim]
    /\ UNCHANGED <<hist, cfg, pc, AS3935IrqTriggered, attached, spi, irqSource, strokeDistance,
                   events, serial, calResult, poll, unserved, edgeSinceClear, done>>

\* One settle-and-measure cycle: program the next trim candidate, measure the
\* deviation, keep the candidate when it beats the best so far.
CalibrateMeasure ==
    /\ pc = "s_cal_sweep"
    /\ Len(sweep.measured) < NumTrim
    /\ \E d \in Devs :
         LET i == Len(sweep.measured)
             better == i = 0 \/ d < sweep.bestDev
         IN
         /\ dev' = [dev EXCEPT !.tunCap = i]
         /\ sweep' = [measured |-> Append(sweep.measured, d),
                      bestDev  |-> IF better THEN d ELSE sweep.bestDev,
                      bestTrim |-> IF better THEN i ELSE sweep.bestTrim]
    /\ UNCHANGED <<hist, cfg, pc, AS3935IrqTriggered, attached, spi, irqSource, strokeDistance,
                   events, serial, calResult, poll, unserved, edgeSinceClear, done>>

\* calibrate() returns: the best trim is written, the verdict is the tolerance test.
CalibrateEnd ==
    /\ pc = "s_cal_sweep"
    /\ Len(sweep.measured) = NumTrim
    /\ pc' = "s_cal_if"
    /\ Leave
    /\ dev' = [dev EXCEPT !.tunCap = sweep.bestTrim]
    /\ calResult' = IF sweep.bestDev <= Tolerance THEN "true" ELSE "false"
    /\ done' = Append(done, "calibrate")
    /\ UNCHANGED <<hist, cfg, AS3935IrqTriggered, attached, irqSource, strokeDistance,
                   events, serial, sweep, poll, unserved, edgeSinceClear>>

\* A mutant of the report: the verdict is dropped, nothing is printed.
SetupCalibrateReport_Silent ==
    /\ pc = "s_cal_if"
    /\ pc' = "s_indoors"
    /\ sweep' = NoSweep
    /\ UNCHANGED <<hist, cfg, AS3935IrqTriggered, attached, dev, spi, irqSource, strokeDistance,
                   events, serial, calResult, poll, unserved, edgeSinceClear, done>>

\* if(!AS3935.calibrate()) Serial.println("Tuning out of range, ...");
SetupCalibrateReport ==
    /\ pc = "s_cal_if"
    /\ pc' = "s_indoors"
    /\ serial' = IF calResult = "false"
                 THEN Append(serial, "TuningOutOfRange") ELSE serial
    /\ sweep' = NoSweep
    /\ UNCHANGED <<hist, cfg, AS3935IrqTriggered, attached, dev, spi, irqSource, strokeDistance,
                   events, calResult, poll, unserved, edgeSinceClear, done>>

\* AS3935.setIndoors() is entered.
SetIndoorsBegin ==
    /\ pc = "s_indoors"
    /\ pc' = "s_indoors_ret"
    /\ Enter("setIndoors")
    /\ UNCHANGED <<hist, cfg, AS3935IrqTriggered, attached, dev, irqSource, strokeDistance,
                   events, serial, sweep, calResult, poll, unserved, edgeSinceClear, done>>

\* AS3935.setIndoors() returns.
SetIndoorsEnd ==
    /\ pc = "s_indoors_ret"
    /\ pc' = "s_disturbers"
    /\ Leave
    /\ Configure("mode", Indoor)
    /\ done' = Append(done, "setIndoors")
    /\ UNCHANGED <<hist, AS3935IrqTriggered, attached, irqSource, strokeDistance,
                   events, serial, sweep, calResult, poll, unserved, edgeSinceClear>>

\* AS3935.enableDisturbers() is entered.
EnableDisturbersBegin ==
    /\ pc = "s_disturbers"
    /\ pc' = "s_disturbers_ret"
    /\ Enter("enableDisturbers")
    /\ UNCHANGED <<hist, cfg, AS3935IrqTriggered, attached, dev, irqSource, strokeDistance,
                   events, serial, sweep, calResult, poll, unserved, edgeSinceClear, done>>

\* AS3935.enableDisturbers() returns.
EnableDisturbersEnd ==
    /\ pc = "s_disturbers_ret"
    /\ pc' = "s_print"
    /\ Leave
    /\ Configure("disturbers", DisturbersEnabled)
    /\ done' = Append(done, "enableDisturbers")
    /\ UNCHANGED <<hist, AS3935IrqTriggered, attached, irqSource, strokeDistance,
                   events, serial, sweep, calResult, poll, unserved, edgeSinceClear>>

\* The getters printAS3935Registers() calls, in its order, and what it prints.
Getters == <<"getNoiseFloor", "getSpikeRejection", "getWatchdogThreshold">>
Printed == <<"NoiseFloor", "SpikeRejection", "WatchdogThreshold">>

\* printAS3935Registers(): the next getter is entered (the three reads come
\* first, the prints after them).
PrintRegistersBegin ==
    /\ pc = "s_print"
    /\ Len(spi) = 0
    /\ \E k \in 1..Len(Getters) :
         /\ k = Cardinality({g \in 1..Len(Getters) : Getters[g] \in {done[j] : j \in 1..Len(done)}}) + 1
         /\ Enter(Getters[k])
    /\ UNCHANGED <<hist, cfg, pc, AS3935IrqTriggered, attached, dev, irqSource, strokeDistance,
                   events, serial, sweep, calResult, poll, unserved, edgeSinceClear, done>>

\* printAS3935Registers(): the getter in flight returns; after the last one the
\* three values are printed and printAS3935Registers() returns.
PrintRegistersEnd ==
    /\ pc = "s_print"
    /\ Len(spi) = 1
    /\ Leave
    /\ done' = Append(done, spi[1].op)
    /\ IF spi[1].op = Getters[Len(Getters)]
       THEN /\ pc' = "s_zero"
            /\ serial' = serial \o Printed
       ELSE UNCHANGED <<hist, cfg, pc, serial>>
    /\ UNCHANGED <<hist, cfg, AS3935IrqTriggered, attached, dev, irqSource, strokeDistance,
                   events, sweep, calResult, poll, unserved, edgeSinceClear>>

\* AS3935IrqTriggered = 0;
SetupZeroFlag ==
    /\ pc = "s_zero"
    /\ pc' = "s_attach"
    /\ AS3935IrqTriggered' = 0
    /\ edgeSinceClear' = FALSE
    /\ done' = Append(done, "zero")
    /\ UNCHANGED <<hist, cfg, attached, dev, spi, irqSource, strokeDistance,
                   events, serial, sweep, calResult, poll, unserved>>

\* attachInterrupt(IRQpin, AS3935Irq, RISING); setup() returns and loop() is called.
SetupAttach ==
    /\ pc = "s_attach"
    /\ pc' = "l_check"
    /\ attached' = TRUE
    /\ done' = Append(done, "attach")
    /\ UNCHANGED <<hist, cfg, AS3935IrqTriggered, dev, spi, irqSource, strokeDistance,
                   events, serial, sweep, calResult, poll, unserved, edgeSinceClear>>

\* The order setup() completes its steps in.
SetupOrder ==
    <<"spi", "reset", "calibrate", "setIndoors", "enableDisturbers">> \o Getters
        \o <<"zero", "attach">>

----------------------------------------------------------------------------
\* loop()

\* A mutant of the statement order: the register is read first, the flag
\* cleared after the read has returned.
PollOrder_ReadThenClear ==
    <<"l_src", "l_src_ret", "l_clear", "l_noise", "l_disturber", "l_lightning">>

\* The statements of the if-block of loop(), in program order, up to the
\* test of the lightning bit.
PollOrder ==
    <<"l_clear", "l_src", "l_src_ret", "l_noise", "l_disturber", "l_lightning">>

\* The statement that follows statement p.
After(p) ==
    LET k == CHOOSE i \in 1..Len(PollOrder) : PollOrder[i] = p
    IN  IF k < Len(PollOrder) THEN PollOrder[k + 1] ELSE "l_end"

\* A mutant of the test: loop() polls the chip on every iteration.
LoopCheck_Always ==
    /\ pc = "l_check"
    /\ pc' = PollOrder[1]
    /\ UNCHANGED <<hist, cfg, AS3935IrqTriggered, attached, dev, spi, irqSource, strokeDistance,
                   events, serial, sweep, calResult, poll, unserved, edgeSinceClear, done>>

\* if(AS3935IrqTriggered): a poll starts when the flag is set; otherwise loop()
\* returns and is called again.
LoopCheck ==
    /\ pc = "l_check"
    /\ pc' = IF AS3935IrqTriggered # 0 THEN PollOrder[1] ELSE "l_check"
    /\ UNCHANGED <<hist, cfg, AS3935IrqTriggered, attached, dev, spi, irqSource, strokeDistance,
                   events, serial, sweep, calResult, poll, unserved, edgeSinceClear, done>>

\* A mutant of the clear: the statement is missing.
LoopClearFlag_Missing ==
    /\ pc = "l_clear"
    /\ pc' = After("l_clear")
    /\ UNCHANGED <<hist, cfg, AS3935IrqTriggered, attached, dev, spi, irqSource, strokeDistance,
                   events, serial, sweep, calResult, poll, unserved, edgeSinceClear, done>>

\* AS3935IrqTriggered = 0;
LoopClearFlag ==
    /\ pc = "l_clear"
    /\ pc' = After("l_clear")
    /\ AS3935IrqTriggered' = 0
    /\ edgeSinceClear' = FALSE
    /\ poll' = [poll EXCEPT !.clears = @ + 1]
    /\ UNCHANGED <<hist, cfg, attached, dev, spi, irqSource, strokeDistance,
                   events, serial, sweep, calResult, unserved, done>>

\* AS3935.interruptSource() is entered.
InterruptSourceBegin ==
    /\ pc = "l_src"
    /\ pc' = After("l_src")
    /\ Enter("interruptSource")
    /\ poll' = [poll EXCEPT !.src = "started"]
    /\ unserved' = FALSE
    /\ hist' = [hist EXCEPT !.credit = @ - 1, !.reads = @ + 1]
    /\ UNCHANGED <<cfg, AS3935IrqTriggered, attached, dev, irqSource, strokeDistance,
                   events, serial, sweep, calResult, edgeSinceClear, done>>

\* int irqSource = AS3935.interruptSource(); the read returns the cause bits
\* and the chip takes its IRQ pin low.
InterruptSourceEnd ==
    /\ pc = "l_src_ret"
    /\ pc' = After("l_src_ret")
    /\ Leave
    /\ \E v \in IrqSources : irqSource' = v
    /\ dev' = [dev EXCEPT !.pin = 0]
    /\ poll' = [poll EXCEPT !.src = "done"]
    /\ UNCHANGED <<hist, cfg, AS3935IrqTriggered, attached, strokeDistance,
                   events, serial, sweep, calResult, unserved, edgeSinceClear, done>>

\* if (irqSource & 0b0001) Serial.println("Noise level too high, ...");
LoopTestNoise ==
    /\ pc = "l_noise"
    /\ pc' = After("l_noise")
    /\ events' = IF BitAnd(irqSource, NoiseMask) # 0
                 THEN Append(events, Msg("NoiseFloorTooHigh", 0)) ELSE events
    /\ UNCHANGED <<hist, cfg, AS3935IrqTriggered, attached, dev, spi, irqSource, strokeDistance,
                   serial, sweep, calResult, poll, unserved, edgeSinceClear, done>>

\* A mutant of the disturber test: it is the else-branch of the noise test.
LoopTestDisturber_ElseIf ==
    /\ pc = "l_disturber"
    /\ pc' = After("l_disturber")
    /\ events' = IF BitAnd(irqSource, NoiseMask) = 0 /\ BitAnd(irqSource, DisturberMask) # 0
                 THEN Append(events, Msg("DisturberDetected", 0)) ELSE events
    /\ UNCHANGED <<hist, cfg, AS3935IrqTriggered, attached, dev, spi, irqSource, strokeDistance,
                   serial, sweep, calResult, poll, unserved, edgeSinceClear, done>>

\* if (irqSource & 0b0100) Serial.println("Disturber detected");
LoopTestDisturber ==
    /\ pc = "l_disturber"
    /\ pc' = After("l_disturber")
    /\ events' = IF BitAnd(irqSource, DisturberMask) # 0
                 THEN Append(events, Msg("DisturberDetected", 0)) ELSE events
    /\ UNCHANGED <<hist, cfg, AS3935IrqTriggered, attached, dev, spi, irqSource, strokeDistance,
                   serial, sweep, calResult, poll, unserved, edgeSinceClear, done>>

\* A mutant of the lightning test: the mask is 0b0010.
LoopTestLightning_WrongBit ==
    /\ pc = "l_lightning"
    /\ pc' = IF BitAnd(irqSource, 2) # 0 THEN "l_km" ELSE "l_end"
    /\ UNCHANGED <<hist, cfg, AS3935IrqTriggered, attached, dev, spi, irqSource, strokeDistance,
                   events, serial, sweep, calResult, poll, unserved, edgeSinceClear, done>>

\* if (irqSource & 0b1000) { ... }
LoopTestLightning ==
    /\ pc = "l_lightning"
    /\ pc' = IF BitAnd(irqSource, LightningMask) # 0 THEN "l_km" ELSE "l_end"
    /\ UNCHANGED <<hist, cfg, AS3935IrqTriggered, attached, dev, spi, irqSource, strokeDistance,
                   events, serial, sweep, calResult, poll, unserved, edgeSinceClear, done>>

\* AS3935.lightningDistanceKm() is entered.
LightningDistanceBegin ==
    /\ pc = "l_km"
    /\ pc' = "l_km_ret"
    /\ Enter("lightningDistanceKm")
    /\ poll' = [poll EXCEPT !.km = "started"]
    /\ UNCHANGED <<hist, cfg, AS3935IrqTriggered, attached, dev, irqSource, strokeDistance,
                   events, serial, sweep, calResult, unserved, edgeSinceClear, done>>

\* int strokeDistance = AS3935.lightningDistanceKm();
LightningDistanceEnd ==
    /\ pc = "l_km_ret"
    /\ pc' = "l_overhead"
    /\ Leave
    /\ \E d \in Distances : strokeDistance' = d
    /\ poll' = [poll EXCEPT !.km = "done"]
    /\ UNCHANGED <<hist, cfg, AS3935IrqTriggered, attached, dev, irqSource,
                   events, serial, sweep, calResult, unserved, edgeSinceClear, done>>

\* if (strokeDistance == 1) Serial.println("Storm overhead, watch out!");
LoopTestOverhead ==
    /\ pc = "l_overhead"
    /\ pc' = "l_outofrange"
    /\ events' = IF strokeDistance = OverheadKm
                 THEN Append(events, Msg("StormOverhead", strokeDistance)) ELSE events
    /\ UNCHANGED <<hist, cfg, AS3935IrqTriggered, attached, dev, spi, irqSource, strokeDistance,
                   serial, sweep, calResult, poll, unserved, edgeSinceClear, done>>

\* A mutant of the out-of-range test: every distance from 63 up is reported.
LoopTestOutOfRange_AtLeast ==
    /\ pc = "l_outofrange"
    /\ pc' = "l_kilometers"
    /\ events' = IF strokeDistance >= OutOfRangeKm
                 THEN Append(events, Msg("OutOfRange", strokeDistance)) ELSE events
    /\ UNCHANGED <<hist, cfg, AS3935IrqTriggered, attached, dev, spi, irqSource, strokeDistance,
                   serial, sweep, calResult, poll, unserved, edgeSinceClear, done>>

\* if (strokeDistance == 63) Serial.println("Out of range lightning detected.");
LoopTestOutOfRange ==
    /\ pc = "l_outofrange"
    /\ pc' = "l_kilometers"
    /\ events' = IF strokeDistance = OutOfRangeKm
                 THEN Append(events, Msg("OutOfRange", strokeDistance)) ELSE events
    /\ UNCHANGED <<hist, cfg, AS3935IrqTriggered, attached, dev, spi, irqSource, strokeDistance,
                   serial, sweep, calResult, poll, unserved, edgeSinceClear, done>>

\* A mutant of the kilometre test: the bounds are inclusive.
LoopTestKilometers_Inclusive ==
    /\ pc = "l_kilometers"
    /\ pc' = "l_end"
    /\ events' = IF strokeDistance <= OutOfRangeKm /\ strokeDistance >= OverheadKm
                 THEN Append(events, Msg("LightningKm", strokeDistance)) ELSE events
    /\ UNCHANGED <<hist, cfg, AS3935IrqTriggered, attached, dev, spi, irqSource, strokeDistance,
                   serial, sweep, calResult, poll, unserved, edgeSinceClear, done>>

\* if (strokeDistance < 63 && strokeDistance > 1) { print the distance in km }
LoopTestKilometers ==
    /\ pc = "l_kilometers"
    /\ pc' = "l_end"
    /\ events' = IF strokeDistance < OutOfRangeKm /\ strokeDistance > OverheadKm
                 THEN Append(events, Msg("LightningKm", strokeDistance)) ELSE events
    /\ UNCHANGED <<hist, cfg, AS3935IrqTriggered, attached, dev, spi, irqSource, strokeDistance,
                   serial, sweep, calResult, poll, unserved, edgeSinceClear, done>>

\* The if-block ends and loop() returns: its locals go out of scope.
LoopReturn ==
    /\ pc = "l_end"
    /\ pc' = "l_check"
    /\ irqSource' = 0
    /\ strokeDistance' = 0
    /\ events' = <<>>
    /\ poll' = NoPoll
    /\ hist' = [hist EXCEPT !.reads = 0]
    /\ UNCHANGED <<cfg, AS3935IrqTriggered, attached, dev, spi,
                   serial, sweep, calResult, unserved, edgeSinceClear, done>>

----------------------------------------------------------------------------
\* The rising-edge handler and the IRQ pin.

\* A mutant of the handler: it reads the interrupt-source register itself.
AS3935Irq_ReadsInHandler ==
    /\ AS3935IrqTriggered' = 1
    /\ unserved' = TRUE
    /\ edgeSinceClear' = TRUE
    /\ spi' = Append(spi, [ctx |-> "isr", op |-> "interruptSource"])
    /\ hist' = [hist EXCEPT !.credit = Bump(@)]
    /\ UNCHANGED <<cfg, pc, attached, irqSource, strokeDistance,
                   events, serial, sweep, calResult, poll, done>>

\* A mutant of the handler: it counts the edges, AS3935IrqTriggered++.
AS3935Irq_Counts ==
    /\ AS3935IrqTriggered' = AS3935IrqTriggered + 1
    /\ unserved' = TRUE
    /\ edgeSinceClear' = TRUE
    /\ hist' = [hist EXCEPT !.credit = Bump(@)]
    /\ UNCHANGED <<cfg, pc, attached, spi, irqSource, strokeDistance,
                   events, serial, sweep, calResult, poll, done>>

\* void AS3935Irq() { AS3935IrqTriggered = 1; }
AS3935Irq ==
    /\ AS3935IrqTriggered' = 1
    /\ unserved' = TRUE
    /\ edgeSinceClear' = TRUE
    /\ hist' = [hist EXCEPT !.credit = Bump(@)]
    /\ UNCHANGED <<cfg, pc, attached, spi, irqSource, strokeDistance,
                   events, serial, sweep, calResult, poll, done>>

\* The IRQ pin goes high; once the handler is attached the edge runs it.
RisingEdge ==
    /\ dev.pin = 0
    /\ dev' = [dev EXCEPT !.pin = 1]
    /\ IF attached
       THEN AS3935Irq
       ELSE UNCHANGED <<hist, cfg, pc, AS3935IrqTriggered, attached, spi, irqSource, strokeDistance,
                        events, serial, sweep, calResult, poll, unserved, edgeSinceClear, done>>

\* The IRQ pin goes low on the chip's own account (the oscillator output
\* during calibration, a cause that expires).
FallingEdge ==
    /\ dev.pin = 1
    /\ dev' = [dev EXCEPT !.pin = 0]
    /\ UNCHANGED <<hist, cfg, pc, AS3935IrqTriggered, attached, spi, irqSource, strokeDistance,
                   events, serial, sweep, calResult, poll, unserved, edgeSinceClear, done>>

----------------------------------------------------------------------------
\* The regular path: setup() once, then loop() forever.
Setup ==
    \/ SetupSpiInit
    \/ ResetBegin
    \/ ResetEnd
    \/ CalibrateBegin
    \/ CalibrateMeasure
    \/ CalibrateEnd
    \/ SetupCalibrateReport
    \/ SetIndoorsBegin
    \/ SetIndoorsEnd
    \/ EnableDisturbersBegin
    \/ EnableDisturbersEnd
    \/ PrintRegistersBegin
    \/ PrintRegistersEnd
    \/ SetupZeroFlag
    \/ SetupAttach

Loop ==
    \/ LoopCheck
    \/ LoopClearFlag
    \/ InterruptSourceBegin
    \/ InterruptSourceEnd
    \/ LoopTestNoise
    \/ LoopTestDisturber
    \/ LoopTestLightning
    \/ LightningDistanceBegin
    \/ LightningDistanceEnd
    \/ LoopTestOverhead
    \/ LoopTestOutOfRange
    \/ LoopTestKilometers
    \/ LoopReturn

Main == Setup \/ Loop

Next == Main \/ RisingEdge \/ FallingEdge

Spec == Init /\ [][Next]_vars

\* The runtime calls loop() again whenever it returns, and every statement of
\* the regular path completes: the regular path keeps taking steps.
FairSpec == Spec /\ WF_vars(Main)

\* The chip as its data sheet describes the IRQ pin: it goes high on an
\* event and low only when the interrupt-source register is read.
NextDevice == Main \/ RisingEdge

SpecDevice == Init /\ [][NextDevice]_vars

\* The configuration interface on its own: a setter is applied to a field
\* with a valid value, whatever the registers hold.
ConfigSet ==
    /\ cfg.n < MaxSets
    /\ \E f \in Settable : \E v \in ValidValues[f] : Configure(f, v)
    /\ UNCHANGED <<hist, pc, AS3935IrqTriggered, attached, spi, irqSource, strokeDistance,
                   events, serial, sweep, calResult, poll, unserved, edgeSinceClear, done>>

RegSpec == Init /\ [][ConfigSet]_vars

----------------------------------------------------------------------------
\* Vocabulary of the properties.

\* Bit k of v, by division (independent of BitAnd).
Bit(v, k) == (v \div (2 ^ k)) % 2 = 1

\* The number of messages of the given kinds the poll has printed.
Count(kinds) == Len(OfKind(events, kinds))

Range(s) == {s[i] : i \in 1..Len(s)}

IsPrefix(s, t) == Len(s) <= Len(t) /\ \A i \in 1..Len(s) : s[i] = t[i]

SeqMin(s) == CHOOSE x \in Range(s) : \A y \in Range(s) : x <= y

\* The program points inside the if-block of loop().
PollPoints ==
    {"l_clear", "l_src", "l_src_ret", "l_noise", "l_disturber", "l_lightning",
     "l_km", "l_km_ret", "l_overhead", "l_outofrange", "l_kilometers", "l_end"}

\* The classifier's state: Classifying inside the if-block, otherwise
\* InterruptPending or Idle as the flag says.
ClassifierState ==
    IF pc \in PollPoints THEN "Classifying"
    ELSE IF AS3935IrqTriggered # 0 THEN "InterruptPending"
    ELSE "Idle"

\* The moves of the classifier: Idle -> InterruptPending -> Classifying, and
\* from Classifying back to Idle or, when an edge arrived meanwhile, to
\* InterruptPending.
ClassifierStep ==
    LET move == <<ClassifierState, ClassifierState'>> IN
    move \in {<<"Idle", "Idle">>, <<"Idle", "InterruptPending">>,
              <<"InterruptPending", "InterruptPending">>,
              <<"InterruptPending", "Classifying">>,
              <<"Classifying", "Classifying">>,
              <<"Classifying", "Idle">>, <<"Classifying", "InterruptPending">>}

\* The order the sketch is said to initialise in.
ClaimedSetupOrder ==
    <<"spi", "reset", "calibrate", "setIndoors", "enableDisturbers",
      "getNoiseFloor", "getSpikeRejection", "getWatchdogThreshold", "zero", "attach">>

----------------------------------------------------------------------------
C2_NoEdgeLost ==
    unserved ~> ~unserved

\* An edge arrived between the clear and the read of a poll, and the read
\* that started after it is in flight.
C2_Witness ==
    pc = "l_src_ret" /\ AS3935IrqTriggered = 1 /\ ~unserved

\* C3: a step of the edge handler sets the flag to 1 and changes nothing else
\* of the program (no call is entered, nothing is printed, no local changes);
\* every library call in flight was entered on the regular path.
C3_HandlerOnlySetsFlag ==
    /\ [][(attached /\ dev.pin = 0 /\ dev'.pin = 1) =>
            /\ AS3935IrqTriggered' = 1
            /\ dev'.tunCap = dev.tunCap
            /\ UNCHANGED <<pc, attached, spi, irqSource, strokeDistance,
                           events, serial, sweep, calResult, poll, done>>]_vars
    /\ [](\A i \in 1..Len(spi) : spi[i].ctx = "main")

\* The handler has run while the distance read was in flight.
C3_Witness ==
    pc = "l_km_ret" /\ edgeSinceClear /\ Len(spi) = 1 /\ spi[1].op = "lightningDistanceKm"

\* C4: at most one library call (register transaction) is in flight at any
\* time, whatever the handler does meanwhile.
C4_OneTransaction ==
    Len(spi) <= 1

\* The handler has set the flag while the interrupt-source read was in flight.
C4_Witness ==
    /\ pc = "l_src_ret" /\ Len(spi) = 1 /\ spi[1].op = "interruptSource"
    /\ unserved /\ AS3935IrqTriggered = 1

\* C5: a poll that read a value with bits 0 and 2 set has printed both
\* NoiseFloorTooHigh and DisturberDetected when it ends, and has cleared the
\* flag exactly once.
C5_NoiseAndDisturber ==
    (pc = "l_end" /\ Bit(irqSource, 0) /\ Bit(irqSource, 2)) =>
        /\ Count({"NoiseFloorTooHigh"}) = 1
        /\ Count({"DisturberDetected"}) = 1
        /\ poll.clears = 1

C5_Witness ==
    /\ pc = "l_end" /\ irqSource = 5 /\ poll.clears = 1
    /\ events = <<Msg("NoiseFloorTooHigh", 0), Msg("DisturberDetected", 0)>>

\* C6: for every value read, the poll prints NoiseFloorTooHigh iff bit 0 is
\* set and DisturberDetected iff bit 2 is set (once each), reads the distance
\* register iff bit 3 is set, and prints nothing for bit 1 alone.
C6_EventPerBit ==
    /\ pc = "l_end" =>
        /\ Count({"NoiseFloorTooHigh"}) = (IF Bit(irqSource, 0) THEN 1 ELSE 0)
        /\ Count({"DisturberDetected"}) = (IF Bit(irqSource, 2) THEN 1 ELSE 0)
        /\ poll.km = (IF Bit(irqSource, 3) THEN "done" ELSE "none")
        /\ Count(LightningKinds) > 0 => Bit(irqSource, 3)
        /\ irqSource = 2 => events = <<>>
    /\ poll.km # "none" => poll.src = "done" /\ Bit(irqSource, 3)

C6_Witness ==
    /\ pc = "l_end" /\ irqSource = 13 /\ poll.km = "done"
    /\ Count({"NoiseFloorTooHigh"}) = 1 /\ Count({"DisturberDetected"}) = 1

\* C7: with bit 3 set, a distance of 1 prints exactly the overhead message, 63
\* exactly the out-of-range message, and a distance strictly between exactly
\* one message giving that distance in kilometres.
C7_DistanceOutcomes ==
    (pc = "l_end" /\ Bit(irqSource, 3)) =>
        LET L == OfKind(events, LightningKinds)
            d == strokeDistance
        IN  /\ d = 1 => L = <<Msg("StormOverhead", 1)>>
            /\ d = 63 => L = <<Msg("OutOfRange", 63)>>
            /\ (1 < d /\ d < 63) => L = <<Msg("LightningKm", d)>>

C7_Witness ==
    /\ pc = "l_end" /\ irqSource = 8 /\ strokeDistance = 30
    /\ events = <<Msg("LightningKm", 30)>>

C9_SetupOrder ==
    /\ IsPrefix(done, ClaimedSetupOrder)
    /\ attached => done = ClaimedSetupOrder
    /\ (AS3935IrqTriggered # 0 \/ unserved \/ edgeSinceClear
          \/ poll.src # "none" \/ pc \in PollPoints) => done = ClaimedSetupOrder
    /\ (\E i \in 1..Len(spi) : spi[i].op = "calibrate") => "reset" \in Range(done)

C9_Witness ==
    pc = "l_src_ret" /\ done = ClaimedSetupOrder /\ edgeSinceClear

\* C10: calibrate() measures every trim candidate, leaves the candidate of
\* minimal deviation selected, and returns false exactly when no candidate is
\* within the tolerance (true when at least one is).
C10_CalibrateVerdict ==
    pc = "s_cal_if" =>
        LET m == sweep.measured IN
        /\ Len(m) = NumTrim
        /\ m[dev.tunCap + 1] = SeqMin(m)
        /\ calResult = "false" <=> (\A i \in 1..Len(m) : m[i] > Tolerance)
        /\ calResult = "true" <=> (\E i \in 1..Len(m) : m[i] <= Tolerance)

\* The last candidate is the only one within tolerance and is selected.
C10_Witness ==
    /\ pc = "s_cal_if" /\ calResult = "true" /\ dev.tunCap = NumTrim - 1
    /\ \A i \in 1..(NumTrim - 1) : sweep.measured[i] > Tolerance

\* The number of times setup() has printed message x.
Printed_(x) == Len(SelectSeq(serial, LAMBDA m : m = x))

\* The program points of setup() up to and including the test of the verdict.
BeforeReport == {"s_spi", "s_reset", "s_reset_ret", "s_cal", "s_cal_sweep", "s_cal_if"}

\* C11: a failed calibration is reported exactly once (and a passed one
\* never), the steps of setup() after calibrate() are the same for both
\* verdicts, and after a failure setup() still configures the chip, attaches
\* the handler and reaches the polling loop.
C11_FailureReportedNotBlocking ==
    /\ [](Printed_("TuningOutOfRange") =
            (IF calResult = "false" /\ pc \notin BeforeReport THEN 1 ELSE 0))
    /\ [](IsPrefix(done, ClaimedSetupOrder))
    /\ [](pc = "l_check" =>
            /\ done = ClaimedSetupOrder
            /\ attached
            /\ GetField(dev.regs, "mode") = Indoor
            /\ GetField(dev.regs, "disturbers") = DisturbersEnabled)
    /\ (calResult = "false") ~> (pc = "l_check")

C11_Witness ==
    /\ pc = "l_check" /\ calResult = "false" /\ attached
    /\ serial[1] = "TuningOutOfRange" /\ done = ClaimedSetupOrder

\* C12: after any setters have run on any register contents, every field
\* that was set reads back the value last set to it and every other field
\* reads what it read before; in particular the mode field reads Indoor after
\* setIndoors() followed by enableDisturbers().
C12_ReadModifyWrite ==
    /\ \A f \in Fields : GetField(dev.regs, f) = cfg.expected[f]
    /\ cfg.log # <<>> =>
         GetField(dev.regs, cfg.log[Len(cfg.log)][1]) = cfg.log[Len(cfg.log)][2]
    /\ (/\ Len(cfg.log) >= 2
        /\ cfg.log[Len(cfg.log) - 1] = <<"mode", Indoor>>
        /\ cfg.log[Len(cfg.log)] = <<"disturbers", DisturbersEnabled>>)
         => GetField(dev.regs, "mode") = Indoor

\* setIndoors() then enableDisturbers() on registers that held all ones: the
\* siblings of both fields still read all ones.
C12_Witness ==
    /\ cfg.log = <<<<"mode", Indoor>>, <<"disturbers", DisturbersEnabled>>>>
    /\ GetField(dev.regs, "mode") = Indoor
    /\ GetField(dev.regs, "disturbers") = DisturbersEnabled
    /\ GetField(dev.regs, "powerDown") = 1
    /\ GetField(dev.regs, "interrupt") = 15

\* C13: the flag only ever holds 0 or 1; a handler run that finds it 1
\* changes nothing of the program; a pass performs exactly one
\* interruptSource() read however many handler runs preceded it.
C13_CoalescingBit ==
    /\ [](AS3935IrqTriggered \in {0, 1})
    /\ [][(attached /\ dev.pin = 0 /\ dev'.pin = 1 /\ AS3935IrqTriggered = 1) =>
            /\ dev'.tunCap = dev.tunCap /\ dev'.regs = dev.regs
            /\ UNCHANGED <<AS3935IrqTriggered, pc, attached, spi, irqSource,
                           strokeDistance, events, serial, sweep, calResult,
                           poll, done, cfg>>]_vars
    /\ [](hist.reads <= 1)
    /\ [](pc = "l_end" => hist.reads = 1)

\* A pass ends having read once, with more handler runs than reads so far
\* and nothing pending.
C13_Witness ==
    pc = "l_end" /\ hist.reads = 1 /\ hist.credit >= 1 /\ AS3935IrqTriggered = 0

\* C14: with an IRQ pin that falls only on the interrupt-source read, the
\* pin is high, and so no edge arrives and the flag stays 0, from the clear
\* of a poll to the end of its read; whenever the flag is 1 the pin is high,
\* so after a read the flag is 0 until the pin rises again.
C14_NoEdgeBeforeRead ==
    /\ pc \in {"l_src", "l_src_ret"} =>
         AS3935IrqTriggered = 0 /\ dev.pin = 1 /\ ~edgeSinceClear
    /\ pc = "l_clear" => dev.pin = 1
    /\ AS3935IrqTriggered # 0 => dev.pin = 1

\* The read has returned, no event came since, the flag is 0.
C14_Witness ==
    pc = "l_disturber" /\ poll.src = "done" /\ dev.pin = 0 /\ AS3935IrqTriggered = 0

\* C15: a pass starts only after a handler run since the flag was last
\* zeroed, the interruptSource() reads never outnumber the handler runs, and
\* an iteration of loop() that finds the flag 0 enters no call, prints
\* nothing and stays at the test.
C15_ReadsFollowEdges ==
    /\ [](hist.credit >= 0)
    /\ [](pc = "l_clear" => edgeSinceClear)
    /\ [][(pc = "l_check" /\ AS3935IrqTriggered = 0) =>
            /\ pc' = "l_check"
            /\ hist'.reads = hist.reads
            /\ UNCHANGED <<spi, events, serial, irqSource, strokeDistance, poll>>]_vars

\* One handler run, one read: the read of the first pass is in flight.
C15_Witness ==
    pc = "l_src_ret" /\ hist.credit = 0 /\ hist.reads = 1 /\ ~edgeSinceClear

\* C16: with bit 3 set a pass prints exactly one lightning message when the
\* distance is in 1..63 and none when it is 0 or above 63, and then nothing
\* in its place; a pass never prints more than one lightning message.
C16_OneLightningMessage ==
    /\ Count(LightningKinds) <= 1
    /\ Len(events) = Count({"NoiseFloorTooHigh", "DisturberDetected"}) + Count(LightningKinds)
    /\ (pc = "l_end" /\ Bit(irqSource, 3)) =>
         Count(LightningKinds) =
            (IF 1 <= strokeDistance /\ strokeDistance <= 63 THEN 1 ELSE 0)

\* A distance above 63 was read and the pass printed nothing.
C16_Witness ==
    pc = "l_end" /\ irqSource = 8 /\ strokeDistance > 63 /\ events = <<>>

====
